---- MODULE Spec2Model ----
(***************************************************************************)
(* Workload anti-affinity core of the karmada scheduler:                   *)
(*   - schedulerCache (pkg/scheduler/cache/cache.go): the affinityGroups   *)
(*     and clustersByRB indexes, fed by ResourceBinding informer events;   *)
(*   - Snapshot (pkg/scheduler/cache/snapshot.go): the per-cycle copy;     *)
(*   - AntiAffinity.Filter (plugins/antiaffinity/anti_affinity.go).        *)
(* Go maps are functions with a finite domain, slices are sequences,       *)
(* sets.Set[string] are sets.  Every critical section guarded by           *)
(* schedulerCache.mu is one atomic step.                                   *)
(***************************************************************************)
EXTENDS Integers, Sequences, FiniteSets, TLC

VARIABLES
    featureEnabled,  \* features.FeatureGate.Enabled(features.WorkloadAffinity)
    affinityGroups,  \* schedulerCache.affinityGroups : AntiKey -> []rbID
    clustersByRB,    \* schedulerCache.clustersByRB   : rbID -> set of cluster names
    updating,        \* per event goroutine: the oldRB and newRB of an
                     \* OnResourceBindingUpdate that has returned from unindexRB and not
                     \* yet entered indexRB, and the two maps as it found them
    lastSeen,        \* history: per rbID, the handler that handled it last and the
                     \* projection of the payload it was given
    illFormed,       \* history: how many events broke the informer's discipline
    clusterStore,    \* what clusterLister.List returns: cluster name -> Ready
    rbStore,         \* the ResourceBindings held by the API server, by rbID
    informed,        \* the informer's store: per rbID, the object it delivered last
    cycle,           \* per scheduling worker: its position, binding, Snapshot, results
    trial,           \* history, a reference kept beside the cache: the two maps before
                     \* the handler sequence under observation, or the two maps that the
                     \* events so far give when applied one after the other
    mu,              \* schedulerCache.mu, a sync.RWMutex: the goroutine that holds it
                     \* for writing and the goroutines that hold it for reading
    failover         \* the ResourceBinding handed to UpdateFailoverStatus, as the API
                     \* server holds it, and what the call returned

index == <<affinityGroups, clustersByRB, updating, lastSeen, illFormed, mu>>
world == <<clusterStore, rbStore, informed, cycle, trial, failover>>
vars == <<featureEnabled, index, world>>

----------------------------------------------------------------------------
(* Bounds of the model *)

\* cap on the total number of ids held by all affinityGroups lists
MaxEntries == 3
\* cap on the number of events that break the informer's discipline
MaxIllFormed == 1
\* cap on the number of clusters a scheduling cycle places a binding on
MaxTargets == 1
\* cap on the length of Status.FailoverHistory
MaxHistory == 2
\* cap on the attempts of retry.RetryOnConflict
MaxSteps == 2

----------------------------------------------------------------------------
(* Universe of values *)

Namespaces == {"ns1", "ns2"}
Names == {"job-a", "job-b"}
LabelKeys == {"karmada.io/group", "tier"}
GroupValues == {"alpha", "beta"}
ClusterNames == {"clusterX", "clusterY"}
\* the goroutines that may run an event handler; the informer of the scheduler calls
\* its handlers from one goroutine
Writers == {"w1", "w2"}
Informer == {"w1"}

\* Placement.WorkloadAffinity is a pointer: nil, or a term carrying AffinityLabelKey
NilTerm == [isNil |-> TRUE, AffinityLabelKey |-> ""]
Term(k) == [isNil |-> FALSE, AffinityLabelKey |-> k]
Terms == {NilTerm} \cup {Term(k) : k \in LabelKeys \cup {""}}

\* Spec.Resource.AffinityGroupLabel : map[string]string ("" stands for a missing key,
\* which is what a Go map lookup of a missing key yields)
LabelMaps == [LabelKeys -> GroupValues \cup {""}]

\* Spec.Clusters : []TargetCluster, by name
ClusterSeqs == {<<>>, <<"clusterX">>, <<"clusterY">>, <<"clusterX", "clusterY">>}

\* The fields of a ResourceBinding that the cache and the filter read.  A
\* ResourceBinding lives in the namespace of the resource it references.
Bindings ==
    { [Namespace |-> ns, Name |-> n, ResNamespace |-> ns, ResName |-> rn,
       WorkloadAffinity |-> t, AffinityGroupLabel |-> l, Clusters |-> cs] :
         ns \in Namespaces, n \in Names, rn \in Names, t \in Terms,
         l \in LabelMaps, cs \in ClusterSeqs }

\* the nil *ResourceBinding
NoRB ==
    [Namespace |-> "", Name |-> "", ResNamespace |-> "", ResName |-> "",
     WorkloadAffinity |-> NilTerm, AffinityGroupLabel |-> [k \in LabelKeys |-> ""],
     Clusters |-> <<>>]

----------------------------------------------------------------------------
(* Go helpers *)

\* m[k] = v
MapPut(m, k, v) == [x \in DOMAIN m \cup {k} |-> IF x = k THEN v ELSE m[x]]

\* delete(m, k)
MapDelete(m, k) == [x \in DOMAIN m \ {k} |-> m[x]]

\* labels[k] of a map[string]string
LabelValue(labels, k) == IF k \in DOMAIN labels THEN labels[k] ELSE ""

\* the elements of a slice
Elems(s) == {s[i] : i \in DOMAIN s}

----------------------------------------------------------------------------
(* cache.go *)

\* an AntiKey that leaves the namespace out
MakeAntiKeyAnyNamespace(ns, key, value) ==
    [Namespace |-> "", LabelKey |-> key, GroupValue |-> value]

MakeAntiKey(ns, key, value) == [Namespace |-> ns, LabelKey |-> key, GroupValue |-> value]

\* rb.Namespace + "/" + rb.Name
RBID(rb) == rb.Namespace \o "/" \o rb.Name

\* for _, target := range rb.Spec.Clusters { clusters.Insert(target.Name) }
TargetSet(rb) == {rb.Clusters[i] : i \in DOMAIN rb.Clusters}

\* the value of the cache's two maps
Cache(groups, byRB) == [affinityGroups |-> groups, clustersByRB |-> byRB]

\* an append that loses the ids the list held
AppendIDOverwrite(groups, key, rbID) == MapPut(groups, key, <<rbID>>)

\* append(c.affinityGroups[key], rbID): the list of a missing key is the nil slice
AppendID(groups, key, rbID) ==
    MapPut(groups, key, Append(IF key \in DOMAIN groups THEN groups[key] ELSE <<>>, rbID))

\* indexRB without the len(rb.Spec.Clusters) == 0 return
indexRBUnplaced(c, rb) ==
    LET affinityTerm == rb.WorkloadAffinity
        groupValue == LabelValue(rb.AffinityGroupLabel, affinityTerm.AffinityLabelKey)
        key == MakeAntiKey(rb.Namespace, affinityTerm.AffinityLabelKey, groupValue)
    IN  IF affinityTerm.isNil \/ affinityTerm.AffinityLabelKey = "" THEN c
        ELSE IF groupValue = "" THEN c
        ELSE Cache(AppendID(c.affinityGroups, key, RBID(rb)),
                   MapPut(c.clustersByRB, RBID(rb), TargetSet(rb)))

indexRB(c, rb) ==
    LET affinityTerm == rb.WorkloadAffinity
        groupValue == LabelValue(rb.AffinityGroupLabel, affinityTerm.AffinityLabelKey)
        key == MakeAntiKey(rb.Namespace, affinityTerm.AffinityLabelKey, groupValue)
    IN  IF Len(rb.Clusters) = 0 THEN c
        ELSE IF affinityTerm.isNil \/ affinityTerm.AffinityLabelKey = "" THEN c
        ELSE IF groupValue = "" THEN c
        ELSE Cache(AppendID(c.affinityGroups, key, RBID(rb)),
                   MapPut(c.clustersByRB, RBID(rb), TargetSet(rb)))

\* a filter that keeps no id of the slice
RemoveAll(slice, rbID) == <<>>

\* filtered := slice[:0]; for _, id := range slice { if id != rbID { append } }
RemoveID(slice, rbID) == SelectSeq(slice, LAMBDA id : id # rbID)

\* unindexRB without the delete(c.clustersByRB, rbID)
unindexRBKeepClusters(c, rb) ==
    LET affinityTerm == rb.WorkloadAffinity
        groupValue == LabelValue(rb.AffinityGroupLabel, affinityTerm.AffinityLabelKey)
        key == MakeAntiKey(rb.Namespace, affinityTerm.AffinityLabelKey, groupValue)
        filtered == RemoveID(c.affinityGroups[key], RBID(rb))
        groups == IF key \in DOMAIN c.affinityGroups
                  THEN IF Len(filtered) = 0
                       THEN MapDelete(c.affinityGroups, key)
                       ELSE MapPut(c.affinityGroups, key, filtered)
                  ELSE c.affinityGroups
    IN  IF affinityTerm.isNil \/ affinityTerm.AffinityLabelKey = "" THEN c
        ELSE IF groupValue = "" THEN c
        ELSE Cache(groups, c.clustersByRB)

\* unindexRB that leaves the bucket of a list that has become empty
unindexRBKeepBucket(c, rb) ==
    LET affinityTerm == rb.WorkloadAffinity
        groupValue == LabelValue(rb.AffinityGroupLabel, affinityTerm.AffinityLabelKey)
        key == MakeAntiKey(rb.Namespace, affinityTerm.AffinityLabelKey, groupValue)
        filtered == RemoveID(c.affinityGroups[key], RBID(rb))
        groups == IF key \in DOMAIN c.affinityGroups
                  THEN MapPut(c.affinityGroups, key, filtered)
                  ELSE c.affinityGroups
    IN  IF affinityTerm.isNil \/ affinityTerm.AffinityLabelKey = "" THEN c
        ELSE IF groupValue = "" THEN c
        ELSE Cache(groups, MapDelete(c.clustersByRB, RBID(rb)))

unindexRB(c, rb) ==
    LET affinityTerm == rb.WorkloadAffinity
        groupValue == LabelValue(rb.AffinityGroupLabel, affinityTerm.AffinityLabelKey)
        key == MakeAntiKey(rb.Namespace, affinityTerm.AffinityLabelKey, groupValue)
        filtered == RemoveID(c.affinityGroups[key], RBID(rb))
        groups == IF key \in DOMAIN c.affinityGroups
                  THEN IF Len(filtered) = 0
                       THEN MapDelete(c.affinityGroups, key)
                       ELSE MapPut(c.affinityGroups, key, filtered)
                  ELSE c.affinityGroups
    IN  IF affinityTerm.isNil \/ affinityTerm.AffinityLabelKey = "" THEN c
        ELSE IF groupValue = "" THEN c
        ELSE Cache(groups, MapDelete(c.clustersByRB, RBID(rb)))

\* Event payloads: a *ResourceBinding, a cache.DeletedFinalStateUnknown wrapping an
\* object, or anything else.
RBObj(rb) == [type |-> "ResourceBinding", rb |-> rb, wraps |-> ""]
Tombstone(rb) == [type |-> "DeletedFinalStateUnknown", rb |-> rb, wraps |-> "ResourceBinding"]
BadTombstone == [type |-> "DeletedFinalStateUnknown", rb |-> NoRB, wraps |-> "Other"]
OtherObj == [type |-> "Other", rb |-> NoRB, wraps |-> ""]

\* getRBFromObj without the cache.DeletedFinalStateUnknown case
getRBFromObjNoTombstone(obj) ==
    CASE obj.type = "ResourceBinding" -> obj.rb
      [] OTHER -> NoRB

getRBFromObj(obj) ==
    CASE obj.type = "ResourceBinding" -> obj.rb
      [] obj.type = "DeletedFinalStateUnknown" /\ obj.wraps = "ResourceBinding" -> obj.rb
      [] OTHER -> NoRB

----------------------------------------------------------------------------
(* snapshot.go, and Snapshot() of cache.go *)

\* a Go map that may be nil
NilMap == [isNil |-> TRUE, m |-> <<>>]
MakeMap(m) == [isNil |-> FALSE, m |-> m]

\* a slice that keeps the backing array of the cache's list instead of a copy
ShareSlice(key, v) == [shared |-> TRUE, key |-> key, elems |-> v]

\* vv := make([]string, len(v)); copy(vv, v)
CopySlice(key, v) == [shared |-> FALSE, key |-> key, elems |-> v]

\* s := sets.New[string](); for item := range set { s.Insert(item) }
CopySet(set) == {item \in set : TRUE}

\* cluster.DeepCopy()
DeepCopy(cluster) == [Name |-> cluster.Name, Ready |-> cluster.Ready]

\* the nil *Snapshot
NilSnapshot == [isNil |-> TRUE, clusters |-> <<>>, affinityGroups |-> NilMap,
                clustersByRB |-> NilMap]

NewEmptySnapshot == [isNil |-> FALSE, clusters |-> <<>>, affinityGroups |-> NilMap,
                     clustersByRB |-> NilMap]

\* clusterLister.List(labels.Everything()): the cluster objects, in the lister's order
ListOrder == <<"clusterX", "clusterY">>
ListClusters(store) == [i \in DOMAIN ListOrder |-> [Name |-> ListOrder[i], Ready |-> store[ListOrder[i]]]]

\* Snapshot() without the features.FeatureGate.Enabled test
SnapshotUngated(enabled, listFails, store, c) ==
    LET out == NewEmptySnapshot
        clusters == ListClusters(store)
        roster == [i \in DOMAIN clusters |-> DeepCopy(clusters[i])]
    IN  IF listFails THEN out
        ELSE [out EXCEPT
                !.clusters = roster,
                !.affinityGroups =
                    MakeMap([k \in DOMAIN c.affinityGroups |-> CopySlice(k, c.affinityGroups[k])]),
                !.clustersByRB =
                    MakeMap([rbID \in DOMAIN c.clustersByRB |-> CopySet(c.clustersByRB[rbID])])]

\* schedulerCache.Snapshot(); the part under c.mu.RLock() is one step
Snapshot(enabled, listFails, store, c) ==
    LET out == NewEmptySnapshot
        clusters == ListClusters(store)
        roster == [i \in DOMAIN clusters |-> DeepCopy(clusters[i])]
    IN  IF listFails THEN out
        ELSE IF ~enabled THEN [out EXCEPT !.clusters = roster]
        ELSE [out EXCEPT
                !.clusters = roster,
                !.affinityGroups =
                    MakeMap([k \in DOMAIN c.affinityGroups |-> CopySlice(k, c.affinityGroups[k])]),
                !.clustersByRB =
                    MakeMap([rbID \in DOMAIN c.clustersByRB |-> CopySet(c.clustersByRB[rbID])])]

\* what reading a slice held by a Snapshot yields: a slice that shares the cache's
\* backing array shows what the cache has written to it since
ReadSlice(slice) ==
    IF slice.shared /\ slice.key \in DOMAIN affinityGroups
    THEN affinityGroups[slice.key]
    ELSE slice.elems

NumOfClusters(s) == Len(s.clusters)
GetClusters(s) == s.clusters
GetReadyClusters(s) == SelectSeq(s.clusters, LAMBDA c : c.Ready)
GetReadyClusterNames(s) == {s.clusters[i].Name : i \in {j \in DOMAIN s.clusters : s.clusters[j].Ready}}

\* nil when no cluster of the roster has the name
NoCluster == [Name |-> "", Ready |-> FALSE]
GetCluster(s, clusterName) ==
    LET hits == {i \in DOMAIN s.clusters : s.clusters[i].Name = clusterName}
    IN  IF hits = {} THEN NoCluster
        ELSE s.clusters[CHOOSE i \in hits : \A j \in hits : i <= j]

\* s.affinityGroups[antiKey]: the nil slice for a missing key or a nil map
GetPeerResourceBindings(s, namespace, key, value) ==
    LET antiKey == MakeAntiKey(namespace, key, value)
    IN  IF s.affinityGroups.isNil \/ antiKey \notin DOMAIN s.affinityGroups.m THEN <<>>
        ELSE ReadSlice(s.affinityGroups.m[antiKey])

\* whether the slice GetPeerResourceBindings returns is nil: reading a missing key, or
\* reading a nil map, yields the zero value of []string, which is nil; the lists that
\* Snapshot() stores are made by make([]string, len(v)) and are not
PeersNil(s, namespace, key, value) ==
    LET antiKey == MakeAntiKey(namespace, key, value)
    IN  s.affinityGroups.isNil \/ antiKey \notin DOMAIN s.affinityGroups.m

\* s.clustersByRB[rbID]: the nil set for a missing id or a nil map
GetClustersForResourceBinding(s, rbID) ==
    IF s.clustersByRB.isNil \/ rbID \notin DOMAIN s.clustersByRB.m THEN {}
    ELSE s.clustersByRB.m[rbID]

----------------------------------------------------------------------------
(* anti_affinity.go *)

\* framework.NewResult(code, reasons...)
NewResult(code, reason) == [code |-> code, reason |-> reason]

\* the loop over peerRBs left at the first peer that has no clusters
FilterPeersStopAtUnplaced(peerRBs, i, thisID, clusterName, snapshot) ==
    LET Go[j \in 1..(Len(peerRBs) + 1)] ==
            IF j > Len(peerRBs) THEN NewResult("Success", "")
            ELSE IF peerRBs[j] = thisID THEN Go[j + 1]
            ELSE IF GetClustersForResourceBinding(snapshot, peerRBs[j]) = {}
                 THEN NewResult("Success", "")
            ELSE IF clusterName \in GetClustersForResourceBinding(snapshot, peerRBs[j])
                 THEN NewResult("Unschedulable",
                                "cluster violates this resource bindings anti-affinity term")
            ELSE Go[j + 1]
    IN  Go[i]

\* the loop over peerRBs left after its first iteration
FilterPeersFirstOnly(peerRBs, i, thisID, clusterName, snapshot) ==
    IF i > Len(peerRBs) THEN NewResult("Success", "")
    ELSE IF peerRBs[i] # thisID
            /\ clusterName \in GetClustersForResourceBinding(snapshot, peerRBs[i])
         THEN NewResult("Unschedulable",
                        "cluster violates this resource bindings anti-affinity term")
    ELSE NewResult("Success", "")

\* the loop over peerRBs, from position i on
RECURSIVE FilterPeers(_, _, _, _, _)
FilterPeers(peerRBs, i, thisID, clusterName, snapshot) ==
    IF i > Len(peerRBs) THEN NewResult("Success", "")
    ELSE IF peerRBs[i] = thisID
         THEN FilterPeers(peerRBs, i + 1, thisID, clusterName, snapshot)
    ELSE IF clusterName \in GetClustersForResourceBinding(snapshot, peerRBs[i])
         THEN NewResult("Unschedulable",
                        "cluster violates this resource bindings anti-affinity term")
    ELSE FilterPeers(peerRBs, i + 1, thisID, clusterName, snapshot)

\* Filter that tests the snapshot before the WorkloadAffinity directive
FilterSnapshotFirst(enabled, bindingSpec, cluster, snapshot) ==
    LET antiAffinityGroupLabel == bindingSpec.WorkloadAffinity.AffinityLabelKey
        antiAffinityLabelValue ==
            LabelValue(bindingSpec.AffinityGroupLabel, antiAffinityGroupLabel)
        thisID == bindingSpec.ResNamespace \o "/" \o bindingSpec.ResName
        peerRBs == GetPeerResourceBindings(snapshot, bindingSpec.ResNamespace,
                                           antiAffinityGroupLabel, antiAffinityLabelValue)
    IN  IF ~enabled THEN NewResult("Success", "")
        ELSE IF snapshot.isNil THEN NewResult("Error", "anti-affinity snapshot is nil")
        ELSE IF bindingSpec.WorkloadAffinity.isNil THEN NewResult("Success", "")
        ELSE IF antiAffinityLabelValue = "" THEN NewResult("Success", "")
        ELSE FilterPeers(peerRBs, 1, thisID, cluster.Name, snapshot)

\* Filter without the features.FeatureGate.Enabled test
FilterUngated(enabled, bindingSpec, cluster, snapshot) ==
    LET antiAffinityGroupLabel == bindingSpec.WorkloadAffinity.AffinityLabelKey
        antiAffinityLabelValue ==
            LabelValue(bindingSpec.AffinityGroupLabel, antiAffinityGroupLabel)
        thisID == bindingSpec.ResNamespace \o "/" \o bindingSpec.ResName
        peerRBs == GetPeerResourceBindings(snapshot, bindingSpec.ResNamespace,
                                           antiAffinityGroupLabel, antiAffinityLabelValue)
    IN  IF bindingSpec.WorkloadAffinity.isNil THEN NewResult("Success", "")
        ELSE IF snapshot.isNil THEN NewResult("Error", "anti-affinity snapshot is nil")
        ELSE IF antiAffinityLabelValue = "" THEN NewResult("Success", "")
        ELSE FilterPeers(peerRBs, 1, thisID, cluster.Name, snapshot)

Filter(enabled, bindingSpec, cluster, snapshot) ==
    LET antiAffinityGroupLabel == bindingSpec.WorkloadAffinity.AffinityLabelKey
        antiAffinityLabelValue ==
            LabelValue(bindingSpec.AffinityGroupLabel, antiAffinityGroupLabel)
        thisID == bindingSpec.ResNamespace \o "/" \o bindingSpec.ResName
        peerRBs == GetPeerResourceBindings(snapshot, bindingSpec.ResNamespace,
                                           antiAffinityGroupLabel, antiAffinityLabelValue)
    IN  IF ~enabled THEN NewResult("Success", "")
        ELSE IF bindingSpec.WorkloadAffinity.isNil THEN NewResult("Success", "")
        ELSE IF snapshot.isNil THEN NewResult("Error", "anti-affinity snapshot is nil")
        ELSE IF antiAffinityLabelValue = "" THEN NewResult("Success", "")
        ELSE FilterPeers(peerRBs, 1, thisID, cluster.Name, snapshot)

----------------------------------------------------------------------------
(* The informer side: what the handlers are given *)

RBIDs == {ns \o "/" \o n : ns \in Namespaces, n \in Names}

\* the label maps, directives and placements the event payloads carry
GroupAlpha == [k \in LabelKeys |-> IF k = "karmada.io/group" THEN "alpha" ELSE ""]
GroupBeta == [k \in LabelKeys |-> IF k = "karmada.io/group" THEN "beta" ELSE ""]
BothAlpha == [k \in LabelKeys |-> "alpha"]
NoLabels == [k \in LabelKeys |-> ""]
EventShapes ==
    {<<Term("karmada.io/group"), GroupAlpha, cs>> : cs \in ClusterSeqs}
        \cup {<<Term("karmada.io/group"), GroupBeta, <<"clusterX">> >>,
              <<Term("tier"), BothAlpha, <<"clusterX">> >>,
              <<NilTerm, GroupAlpha, <<"clusterX">> >>,
              <<Term(""), GroupAlpha, <<"clusterX">> >>,
              <<Term("karmada.io/group"), NoLabels, <<"clusterX">> >>}

\* the peer, job-b, stays in group alpha
PeerShapes ==
    {<<Term("karmada.io/group"), GroupAlpha, cs>> :
        cs \in {<<>>, <<"clusterX">>, <<"clusterY">>}}

\* the payloads the event handlers are called with
EventBindings ==
    { rb \in Bindings :
        /\ rb.Namespace = "ns1"
        /\ rb.ResName = rb.Name
        /\ <<rb.WorkloadAffinity, rb.AffinityGroupLabel, rb.Clusters>>
               \in (IF rb.Name = "job-a" THEN EventShapes ELSE PeerShapes) }

\* a deletion may arrive as a tombstone
DeleteObjs ==
    {RBObj(rb) : rb \in EventBindings} \cup {Tombstone(rb) : rb \in EventBindings}
        \cup {BadTombstone, OtherObj}
EventObjs == {RBObj(rb) : rb \in EventBindings} \cup {OtherObj}

\* the AffinityKey a binding projects to (NoKey when it has none)
NoKey == [Namespace |-> "", LabelKey |-> "", GroupValue |-> ""]
ProjectedKey(rb) ==
    LET k == rb.WorkloadAffinity.AffinityLabelKey
        v == LabelValue(rb.AffinityGroupLabel, k)
    IN  IF rb.WorkloadAffinity.isNil \/ k = "" \/ v = "" THEN NoKey
        ELSE [Namespace |-> rb.Namespace, LabelKey |-> k, GroupValue |-> v]

NotSeen == [seen |-> FALSE, by |-> "none", key |-> NoKey, clusters |-> {}]
Seen(rb, by) == [seen |-> TRUE, by |-> by, key |-> ProjectedKey(rb), clusters |-> TargetSet(rb)]
Deleted == [NotSeen EXCEPT !.by = "delete"]
\* what the history holds for an rbID
LastSeen(id) == IF id \in DOMAIN lastSeen THEN lastSeen[id] ELSE NotSeen

Idle == [active |-> FALSE]
\* some goroutine is between the two halves of an update of this binding
Busy(id) == \E w \in Writers : updating[w].active /\ RBID(updating[w].newRB) = id

RECURSIVE SumLen(_, _)
SumLen(groups, keys) ==
    IF keys = {} THEN 0
    ELSE LET k == CHOOSE x \in keys : TRUE
         IN  Len(groups[k]) + SumLen(groups, keys \ {k})
\* the lists of c stay within the bound of the model
Fits(c) == SumLen(c.affinityGroups, DOMAIN c.affinityGroups) <= MaxEntries

\* the informer's discipline: one Add per object, then Updates whose old object and a
\* Delete whose object are the state delivered last
AddOrdered(rb) == ~LastSeen(RBID(rb)).seen
ReplaceOrdered(rb) ==
    /\ LastSeen(RBID(rb)).seen
    /\ LastSeen(RBID(rb)).key = ProjectedKey(rb)
    /\ LastSeen(RBID(rb)).clusters = TargetSet(rb)
Charge(ordered) == IF ordered THEN illFormed ELSE illFormed + 1

----------------------------------------------------------------------------
(* The event handlers: their effect on the cache.  `w' is the goroutine that   *)
(* runs the handler.                                                       *)

Now == Cache(affinityGroups, clustersByRB)

SetCache(c) ==
    /\ Fits(c)
    /\ affinityGroups' = c.affinityGroups
    /\ clustersByRB' = c.clustersByRB

OnResourceBindingAdd(w, obj) ==
    LET rb == getRBFromObj(obj)
    IN  /\ ~updating[w].active
        /\ IF rb = NoRB
           THEN UNCHANGED <<affinityGroups, clustersByRB, lastSeen, illFormed>>
           ELSE /\ ~Busy(RBID(rb))
                /\ Charge(AddOrdered(rb)) <= MaxIllFormed
                /\ illFormed' = Charge(AddOrdered(rb))
                /\ SetCache(indexRB(Now, rb))
                /\ lastSeen' = MapPut(lastSeen, RBID(rb), Seen(rb, "add"))
        /\ UNCHANGED <<updating, mu>>

\* OnResourceBindingUpdate up to the return of unindexRB(oldRB): mu is released
UpdateUnindex(w, oldObj, newObj) ==
    LET oldRB == getRBFromObj(oldObj)
        newRB == getRBFromObj(newObj)
    IN  /\ ~updating[w].active
        /\ IF oldRB = NoRB \/ newRB = NoRB
           THEN UNCHANGED <<affinityGroups, clustersByRB, illFormed, updating>>
           ELSE /\ RBID(oldRB) = RBID(newRB)
                /\ ~Busy(RBID(oldRB))
                /\ Charge(ReplaceOrdered(oldRB)) <= MaxIllFormed
                /\ illFormed' = Charge(ReplaceOrdered(oldRB))
                /\ SetCache(unindexRB(Now, oldRB))
                /\ updating' = [updating EXCEPT
                                  ![w] = [active |-> TRUE, oldRB |-> oldRB, newRB |-> newRB,
                                          before |-> Now]]
        /\ UNCHANGED <<lastSeen, mu>>

\* the rest of OnResourceBindingUpdate: indexRB(newRB) takes mu again
UpdateIndex(w) ==
    /\ updating[w].active
    /\ SetCache(indexRB(Now, updating[w].newRB))
    /\ lastSeen' = MapPut(lastSeen, RBID(updating[w].newRB),
                           Seen(updating[w].newRB, "update"))
    /\ updating' = [updating EXCEPT ![w] = Idle]
    /\ UNCHANGED <<illFormed, mu>>

\* OnResourceBindingUpdate run by the only goroutine that touches the cache
OnResourceBindingUpdate(w, oldObj, newObj) ==
    LET oldRB == getRBFromObj(oldObj)
        newRB == getRBFromObj(newObj)
    IN  /\ ~updating[w].active
        /\ IF oldRB = NoRB \/ newRB = NoRB
           THEN UNCHANGED <<affinityGroups, clustersByRB, lastSeen, illFormed>>
           ELSE /\ RBID(oldRB) = RBID(newRB)
                /\ ~Busy(RBID(oldRB))
                /\ Charge(ReplaceOrdered(oldRB)) <= MaxIllFormed
                /\ illFormed' = Charge(ReplaceOrdered(oldRB))
                /\ SetCache(indexRB(unindexRB(Now, oldRB), newRB))
                /\ lastSeen' = MapPut(lastSeen, RBID(newRB), Seen(newRB, "update"))
        /\ UNCHANGED <<updating, mu>>

OnResourceBindingDelete(w, obj) ==
    LET rb == getRBFromObj(obj)
    IN  /\ ~updating[w].active
        /\ IF rb = NoRB
           THEN UNCHANGED <<affinityGroups, clustersByRB, lastSeen, illFormed>>
           ELSE /\ ~Busy(RBID(rb))
                /\ Charge(ReplaceOrdered(rb)) <= MaxIllFormed
                /\ illFormed' = Charge(ReplaceOrdered(rb))
                /\ SetCache(unindexRB(Now, rb))
                /\ lastSeen' = MapPut(lastSeen, RBID(rb), Deleted)
        /\ UNCHANGED <<updating, mu>>

----------------------------------------------------------------------------
(* The cache under any stream of events *)

\* no handler sequence is under observation
NoTrial == [op |-> "none"]

\* NewCache: both maps empty
\* the zero value of sync.RWMutex: held by nobody
Unlocked == [writer |-> "", readers |-> {}]

\* no call of UpdateFailoverStatus has been made
NoFailover == [op |-> "none"]

NewCache ==
    /\ affinityGroups = <<>>
    /\ clustersByRB = <<>>
    /\ updating = [w \in Writers |-> Idle]
    /\ lastSeen = <<>>
    /\ illFormed = 0
    /\ mu = Unlocked

Init ==
    /\ featureEnabled \in BOOLEAN
    /\ NewCache
    /\ clusterStore = [c \in ClusterNames |-> TRUE]
    /\ rbStore = <<>>
    /\ informed = <<>>
    /\ cycle = <<>>
    /\ trial = NoTrial
    /\ failover = NoFailover

AddEvent(w, obj) == OnResourceBindingAdd(w, obj) /\ UNCHANGED <<featureEnabled, world>>
UpdateEvent(w, oldObj, newObj) ==
    OnResourceBindingUpdate(w, oldObj, newObj) /\ UNCHANGED <<featureEnabled, world>>
DeleteEvent(w, obj) == OnResourceBindingDelete(w, obj) /\ UNCHANGED <<featureEnabled, world>>

Next ==
    \/ \E w \in Informer, obj \in EventObjs : AddEvent(w, obj)
    \/ \E w \in Informer, oldObj, newObj \in EventObjs : UpdateEvent(w, oldObj, newObj)
    \/ \E w \in Informer, obj \in DeleteObjs : DeleteEvent(w, obj)

Spec == Init /\ [][Next]_vars

----------------------------------------------------------------------------
(* The scheduler: the API server's bindings, the informer that feeds the cache, *)
(* and the scheduling worker that takes a Snapshot, runs Filter on every      *)
(* cluster of it and writes the placement back.                            *)

Schedulers == {"s1"}

\* the bindings of the model: an unplaced binding of group alpha per workload.  The
\* second one references a resource that is named like the first binding.
Workload(ns, name, resName) ==
    [Namespace |-> ns, Name |-> name, ResNamespace |-> ns, ResName |-> resName,
     WorkloadAffinity |-> Term("karmada.io/group"), AffinityGroupLabel |-> GroupAlpha,
     Clusters |-> <<>>]
Workloads == {Workload("ns1", "job-a", "job-a"), Workload("ns1", "job-b", "job-a")}

\* the informer has delivered every binding of the API server at least once
Synced == DOMAIN rbStore \subseteq DOMAIN informed

NoCycle == [pc |-> "idle"]
Placed(rb, T) == [rb EXCEPT !.Clusters = CHOOSE cs \in ClusterSeqs : Elems(cs) = T]

\* the ids that are between the two halves of an update whose old and new object are
\* both eligible for the index
Eligible(rb) == Len(rb.Clusters) > 0 /\ ProjectedKey(rb) # NoKey
MidUpdate ==
    {RBID(updating[w].newRB) : w \in {x \in Writers :
        /\ updating[x].active
        /\ Eligible(updating[x].oldRB)
        /\ Eligible(updating[x].newRB)}}

InitSched ==
    /\ featureEnabled = TRUE
    /\ NewCache
    /\ clusterStore = [c \in ClusterNames |-> TRUE]
    /\ rbStore = <<>>
    /\ informed = <<>>
    /\ cycle = [s \in Schedulers |-> NoCycle]
    /\ trial = NoTrial
    /\ failover = NoFailover

\* a user creates a workload: the API server holds its binding, unplaced
CreateBinding(rb) ==
    /\ rb \in Workloads
    /\ RBID(rb) \notin DOMAIN rbStore \cup DOMAIN informed
    /\ rbStore' = MapPut(rbStore, RBID(rb), rb)
    /\ UNCHANGED <<featureEnabled, index, clusterStore, informed, cycle, trial, failover>>

\* the informer hands a binding it has not delivered yet to OnResourceBindingAdd
DeliverAdd(w, id) ==
    /\ id \in DOMAIN rbStore \ DOMAIN informed
    /\ OnResourceBindingAdd(w, RBObj(rbStore[id]))
    /\ informed' = MapPut(informed, id, rbStore[id])
    /\ UNCHANGED <<featureEnabled, clusterStore, rbStore, cycle, trial, failover>>

\* the informer hands a changed binding to OnResourceBindingUpdate, which runs up to
\* the return of unindexRB
DeliverUpdate(w, id) ==
    /\ id \in DOMAIN rbStore \cap DOMAIN informed
    /\ informed[id] # rbStore[id]
    /\ UpdateUnindex(w, RBObj(informed[id]), RBObj(rbStore[id]))
    /\ informed' = MapPut(informed, id, rbStore[id])
    /\ UNCHANGED <<featureEnabled, clusterStore, rbStore, cycle, trial, failover>>

\* OnResourceBindingUpdate runs on: indexRB(newRB)
FinishUpdate(w) ==
    /\ UpdateIndex(w)
    /\ UNCHANGED <<featureEnabled, world>>

\* the binding is deleted; the informer hands its last known state, as the object or as
\* a tombstone, to OnResourceBindingDelete
DeleteBinding(w, id, tombstone) ==
    /\ id \in DOMAIN informed
    /\ OnResourceBindingDelete(w, IF tombstone THEN Tombstone(informed[id])
                                  ELSE RBObj(informed[id]))
    /\ rbStore' = MapDelete(rbStore, id)
    /\ informed' = MapDelete(informed, id)
    /\ UNCHANGED <<featureEnabled, clusterStore, cycle, trial, failover>>

\* the clusters whose Ready condition changes
Unstable == {"clusterY"}

ClusterStatusUpdate(c) ==
    /\ clusterStore' = [clusterStore EXCEPT ![c] = ~@]
    /\ UNCHANGED <<featureEnabled, index, rbStore, informed, cycle, trial, failover>>

\* the scheduler process restarts: NewCache, and the informer lists from scratch
Restart ==
    /\ informed # <<>>
    /\ affinityGroups' = <<>>
    /\ clustersByRB' = <<>>
    /\ updating' = [w \in Writers |-> Idle]
    /\ lastSeen' = <<>>
    /\ informed' = <<>>
    /\ cycle' = [s \in Schedulers |-> NoCycle]
    /\ UNCHANGED <<featureEnabled, illFormed, mu, clusterStore, rbStore, trial, failover>>

\* Filter on every cluster of a Snapshot
FilterAll(enabled, rb, snap) ==
    [c \in {snap.clusters[i].Name : i \in DOMAIN snap.clusters}
        |-> Filter(enabled, rb, GetCluster(snap, c), snap)]

\* a scheduling cycle starts for a binding the informer knows: Snapshot(), then Filter
\* on every cluster of the Snapshot, which nothing else can reach in between
BeginCycle(s, id, listFails) ==
    LET snap == Snapshot(featureEnabled, listFails, clusterStore, Now)
    IN  /\ cycle[s].pc = "idle"
        /\ Synced
        /\ id \in DOMAIN informed
        /\ cycle' = [cycle EXCEPT ![s] =
                        [pc |-> "bind", rb |-> informed[id], snap |-> snap,
                         indexedBy |-> LastSeen(id).by, during |-> MidUpdate,
                         results |-> FilterAll(featureEnabled, informed[id], snap)]]
        /\ UNCHANGED <<featureEnabled, index, clusterStore, rbStore, informed, trial, failover>>

\* the clusters that Filter accepted
Feasible(s) == {c \in DOMAIN cycle[s].results : cycle[s].results[c].code = "Success"}

\* the binding is placed on some of the clusters Filter accepted: written to the API server
Bind(s, T) ==
    /\ cycle[s].pc = "bind"
    /\ T # {}
    /\ Cardinality(T) <= MaxTargets
    /\ T \subseteq Feasible(s)
    /\ RBID(cycle[s].rb) \in DOMAIN rbStore
    /\ rbStore' = [rbStore EXCEPT ![RBID(cycle[s].rb)] = Placed(@, T)]
    /\ cycle' = [cycle EXCEPT ![s] = NoCycle]
    /\ UNCHANGED <<featureEnabled, index, clusterStore, informed, trial, failover>>

\* the cycle ends without a placement
EndCycle(s) ==
    /\ cycle[s].pc = "bind"
    /\ cycle' = [cycle EXCEPT ![s] = NoCycle]
    /\ UNCHANGED <<featureEnabled, index, clusterStore, rbStore, informed, trial, failover>>

NextSched ==
    \/ \E rb \in Workloads : CreateBinding(rb)
    \/ \E w \in Informer, id \in RBIDs : DeliverAdd(w, id)
    \/ \E w \in Informer, id \in RBIDs : DeliverUpdate(w, id)
    \/ \E w \in Informer : FinishUpdate(w)
    \/ \E w \in Informer, id \in RBIDs, tombstone \in BOOLEAN : DeleteBinding(w, id, tombstone)
    \/ \E c \in Unstable : ClusterStatusUpdate(c)
    \/ Restart
    \/ \E s \in Schedulers, id \in RBIDs, listFails \in BOOLEAN : BeginCycle(s, id, listFails)
    \/ \E s \in Schedulers, T \in SUBSET ClusterNames : Bind(s, T)
    \/ \E s \in Schedulers : EndCycle(s)

SpecSched == InitSched /\ [][NextSched]_vars

----------------------------------------------------------------------------
(* The feature gate: the cache, Snapshot() and Filter while WorkloadAffinity is  *)
(* switched on and off.  A worker takes a Snapshot, then runs Filter for a      *)
(* pending binding on every cluster, against that Snapshot or against nil.     *)

\* the payloads of the events: one binding of group alpha, unplaced or on a cluster
GateBindings ==
    { rb \in EventBindings :
        /\ rb.Name = "job-a"
        /\ rb.WorkloadAffinity = Term("karmada.io/group")
        /\ rb.AffinityGroupLabel = GroupAlpha
        /\ Len(rb.Clusters) <= 1 }
GateObjs == {RBObj(rb) : rb \in GateBindings}

\* the pending bindings Filter is called for: of a known group, of an unknown group,
\* without the label, without the directive, with an empty AffinityLabelKey
GatePending ==
    { [Workload("ns1", "job-b", "job-b") EXCEPT
          !.WorkloadAffinity = tl[1], !.AffinityGroupLabel = tl[2]] :
        tl \in {<<Term("karmada.io/group"), GroupAlpha>>,
                <<Term("karmada.io/group"), GroupBeta>>,
                <<Term("karmada.io/group"), NoLabels>>,
                <<Term(""), GroupAlpha>>,
                <<NilTerm, GroupAlpha>>} }

InitGate ==
    /\ featureEnabled \in BOOLEAN
    /\ NewCache
    /\ clusterStore = [c \in ClusterNames |-> TRUE]
    /\ rbStore = <<>>
    /\ informed = <<>>
    /\ cycle = [s \in Schedulers |-> NoCycle]
    /\ trial = NoTrial
    /\ failover = NoFailover

\* OnResourceBindingUpdate up to the return of unindexRB(oldRB)
BeginUpdate(w, oldObj, newObj) ==
    /\ UpdateUnindex(w, oldObj, newObj)
    /\ UNCHANGED <<featureEnabled, world>>

\* features.FeatureGate is set
SetFeatureGate(enabled) ==
    /\ featureEnabled # enabled
    /\ featureEnabled' = enabled
    /\ UNCHANGED <<index, world>>

\* Snapshot() is called; the cycle keeps what the gate answered, the clusters the
\* lister held and whether List returned an error
TakeSnapshot(s, listFails) ==
    /\ cycle[s].pc = "idle"
    /\ cycle' = [cycle EXCEPT ![s] =
                    [pc |-> "snap",
                     snap |-> Snapshot(featureEnabled, listFails, clusterStore, Now),
                     enabled |-> featureEnabled,
                     roster |-> ListClusters(clusterStore),
                     listFails |-> listFails]]
    /\ UNCHANGED <<featureEnabled, index, clusterStore, rbStore, informed, trial, failover>>

\* a Filter that removes from the Snapshot the cluster sets it has read
RunFilterConsuming(s, rb, nilSnapshot) ==
    LET given == IF nilSnapshot THEN NilSnapshot ELSE cycle[s].snap
    IN  /\ cycle[s].pc = "snap"
        /\ cycle' = [cycle EXCEPT ![s] =
                        [pc |-> "filtered", rb |-> rb,
                         given |-> [given EXCEPT !.clustersByRB = NilMap],
                         enabled |-> cycle[s].enabled, gate |-> featureEnabled,
                         results |-> [c \in ClusterNames |->
                                         Filter(featureEnabled, rb,
                                                [Name |-> c, Ready |-> clusterStore[c]], given)]]]
        /\ UNCHANGED <<featureEnabled, index, clusterStore, rbStore, informed, trial, failover>>

\* Filter is called for a pending binding on every cluster, with the Snapshot of the
\* cycle or with nil
RunFilter(s, rb, nilSnapshot) ==
    LET given == IF nilSnapshot THEN NilSnapshot ELSE cycle[s].snap
    IN  /\ cycle[s].pc = "snap"
        /\ cycle' = [cycle EXCEPT ![s] =
                        [pc |-> "filtered", rb |-> rb, given |-> given,
                         enabled |-> cycle[s].enabled, gate |-> featureEnabled,
                         results |-> [c \in ClusterNames |->
                                         Filter(featureEnabled, rb,
                                                [Name |-> c, Ready |-> clusterStore[c]], given)]]]
        /\ UNCHANGED <<featureEnabled, index, clusterStore, rbStore, informed, trial, failover>>

\* the cycle is over
DropSnapshot(s) ==
    /\ cycle[s].pc \in {"snap", "filtered"}
    /\ cycle' = [cycle EXCEPT ![s] = NoCycle]
    /\ UNCHANGED <<featureEnabled, index, clusterStore, rbStore, informed, trial, failover>>

NextGate ==
    \/ \E w \in Informer, obj \in GateObjs : AddEvent(w, obj)
    \/ \E w \in Informer, oldObj, newObj \in GateObjs : BeginUpdate(w, oldObj, newObj)
    \/ \E w \in Informer : FinishUpdate(w)
    \/ \E w \in Informer, obj \in GateObjs : DeleteEvent(w, obj)
    \/ \E enabled \in BOOLEAN : SetFeatureGate(enabled)
    \/ \E c \in Unstable : ClusterStatusUpdate(c)
    \/ \E s \in Schedulers, listFails \in BOOLEAN : TakeSnapshot(s, listFails)
    \/ \E s \in Schedulers, rb \in GatePending, nilSnapshot \in BOOLEAN :
           RunFilter(s, rb, nilSnapshot)
    \/ \E s \in Schedulers : DropSnapshot(s)

SpecGate == InitGate /\ [][NextGate]_vars

----------------------------------------------------------------------------
(* Handler sequences: from any state of the cache, OnResourceBindingAdd followed *)
(* by OnResourceBindingDelete for one binding, and OnResourceBindingUpdate     *)
(* with the same object as old and new.  The history keeps the value of the    *)
(* two maps before the sequence.                                            *)

InitRound ==
    /\ featureEnabled = TRUE
    /\ NewCache
    /\ clusterStore = [c \in ClusterNames |-> TRUE]
    /\ rbStore = <<>>
    /\ informed = <<>>
    /\ cycle = <<>>
    /\ trial = NoTrial
    /\ failover = NoFailover

\* an event outside any observed sequence
Untried(event) == trial = NoTrial /\ event

\* OnResourceBindingAdd(rb), observed
AddFirst(w, rb) ==
    /\ trial = NoTrial
    /\ OnResourceBindingAdd(w, RBObj(rb))
    /\ trial' = [op |-> "add", rb |-> rb, before |-> Now]
    /\ UNCHANGED <<featureEnabled, clusterStore, rbStore, informed, cycle, failover>>

\* OnResourceBindingDelete(rb) for the binding of the OnResourceBindingAdd before
DeleteNext(w) ==
    /\ trial.op = "add"
    /\ OnResourceBindingDelete(w, RBObj(trial.rb))
    /\ trial' = [trial EXCEPT !.op = "add-delete"]
    /\ UNCHANGED <<featureEnabled, clusterStore, rbStore, informed, cycle, failover>>

\* OnResourceBindingUpdate(rb, rb), observed
UpdateSame(w, rb) ==
    /\ trial = NoTrial
    /\ OnResourceBindingUpdate(w, RBObj(rb), RBObj(rb))
    /\ trial' = [op |-> "update", rb |-> rb, before |-> Now]
    /\ UNCHANGED <<featureEnabled, clusterStore, rbStore, informed, cycle, failover>>

\* payloads no handler recognizes: a tombstone wrapping something else, and an
\* object of another type
Unrecognized == {BadTombstone, OtherObj}

\* OnResourceBindingAdd or OnResourceBindingDelete given the tombstone of rb
TombstoneEvent(w, handler, rb) ==
    /\ trial = NoTrial
    /\ CASE handler = "add" -> OnResourceBindingAdd(w, Tombstone(rb))
         [] handler = "delete" -> OnResourceBindingDelete(w, Tombstone(rb))
    /\ trial' = [op |-> "tombstone", handler |-> handler, rb |-> rb, before |-> Now]
    /\ UNCHANGED <<featureEnabled, clusterStore, rbStore, informed, cycle, failover>>

\* a handler given obj, which getRBFromObj maps to nil, in one of its arguments
DroppedEvent(w, handler, obj, other) ==
    /\ trial = NoTrial
    /\ CASE handler = "add" -> OnResourceBindingAdd(w, obj)
         [] handler = "update-old" -> OnResourceBindingUpdate(w, obj, other)
         [] handler = "update-new" -> OnResourceBindingUpdate(w, other, obj)
         [] handler = "delete" -> OnResourceBindingDelete(w, obj)
    /\ trial' = [op |-> "dropped", handler |-> handler, before |-> Now]
    /\ UNCHANGED <<featureEnabled, clusterStore, rbStore, informed, cycle, failover>>

\* the observation ends
EndTrial ==
    /\ trial.op \notin {"none", "add"}
    /\ trial' = NoTrial
    /\ UNCHANGED <<featureEnabled, index, clusterStore, rbStore, informed, cycle, failover>>

NextRound ==
    \/ \E w \in Informer, obj \in EventObjs : Untried(AddEvent(w, obj))
    \/ \E w \in Informer, oldObj, newObj \in EventObjs : Untried(UpdateEvent(w, oldObj, newObj))
    \/ \E w \in Informer, obj \in DeleteObjs : Untried(DeleteEvent(w, obj))
    \/ \E w \in Informer, rb \in EventBindings : AddFirst(w, rb)
    \/ \E w \in Informer : DeleteNext(w)
    \/ \E w \in Informer, rb \in EventBindings : UpdateSame(w, rb)
    \/ \E w \in Informer, handler \in {"add", "delete"}, rb \in EventBindings :
           TombstoneEvent(w, handler, rb)
    \/ \E w \in Informer, handler \in {"add", "update-old", "update-new", "delete"},
          obj \in Unrecognized, other \in EventObjs :
           DroppedEvent(w, handler, obj, other)
    \/ EndTrial

SpecRound == InitRound /\ [][NextRound]_vars

----------------------------------------------------------------------------
(* Concurrent writers: two goroutines deliver the events of two different       *)
(* bindings, each in the order of its binding.  A handler holds mu per call of  *)
(* indexRB and of unindexRB; the calls of the two goroutines interleave.  The  *)
(* history applies every event as a whole, one after the other.              *)

\* the binding whose events a goroutine delivers
Owned(w) == IF w = "w1" THEN "ns1/job-a" ELSE "ns1/job-b"

\* the states of a binding that the events carry
WriterBindings ==
    { rb \in Bindings :
        /\ rb.Namespace = "ns1"
        /\ rb.ResName = rb.Name
        /\ <<rb.WorkloadAffinity, rb.AffinityGroupLabel, rb.Clusters>>
               \in {<<Term("karmada.io/group"), GroupAlpha, <<"clusterX">> >>,
                    <<Term("karmada.io/group"), GroupAlpha, <<"clusterY">> >>,
                    <<Term("karmada.io/group"), GroupAlpha, <<>> >>,
                    <<Term("karmada.io/group"), GroupBeta, <<"clusterX">> >>} }

\* the events so far, applied one after the other, give the maps of c
Serial(c) == [op |-> "serial", cache |-> c]

InitWriters ==
    /\ featureEnabled = TRUE
    /\ NewCache
    /\ clusterStore = [c \in ClusterNames |-> TRUE]
    /\ rbStore = <<>>
    /\ informed = <<>>
    /\ cycle = <<>>
    /\ trial = Serial(Cache(<<>>, <<>>))
    /\ failover = NoFailover

\* OnResourceBindingAdd for a binding not delivered yet
WriterAdd(w, rb) ==
    /\ RBID(rb) = Owned(w)
    /\ RBID(rb) \notin DOMAIN informed
    /\ OnResourceBindingAdd(w, RBObj(rb))
    /\ informed' = MapPut(informed, RBID(rb), rb)
    /\ trial' = Serial(indexRB(trial.cache, rb))
    /\ UNCHANGED <<featureEnabled, clusterStore, rbStore, cycle, failover>>

\* OnResourceBindingUpdate(old, new), old the state delivered last, up to the return of
\* unindexRB(old)
WriterUpdate(w, rb) ==
    /\ RBID(rb) = Owned(w)
    /\ RBID(rb) \in DOMAIN informed
    /\ informed[RBID(rb)] # rb
    /\ UpdateUnindex(w, RBObj(informed[RBID(rb)]), RBObj(rb))
    /\ informed' = MapPut(informed, RBID(rb), rb)
    /\ trial' = Serial(indexRB(unindexRB(trial.cache, informed[RBID(rb)]), rb))
    /\ UNCHANGED <<featureEnabled, clusterStore, rbStore, cycle, failover>>

\* the rest of OnResourceBindingUpdate: indexRB(new)
WriterFinish(w) ==
    /\ UpdateIndex(w)
    /\ UNCHANGED <<featureEnabled, world>>

\* OnResourceBindingDelete with the state delivered last
WriterDelete(w) ==
    /\ Owned(w) \in DOMAIN informed
    /\ OnResourceBindingDelete(w, RBObj(informed[Owned(w)]))
    /\ informed' = MapDelete(informed, Owned(w))
    /\ trial' = Serial(unindexRB(trial.cache, informed[Owned(w)]))
    /\ UNCHANGED <<featureEnabled, clusterStore, rbStore, cycle, failover>>

NextWriters ==
    \/ \E w \in Writers, rb \in WriterBindings : WriterAdd(w, rb)
    \/ \E w \in Writers, rb \in WriterBindings : WriterUpdate(w, rb)
    \/ \E w \in Writers : WriterFinish(w)
    \/ \E w \in Writers : WriterDelete(w)

SpecWriters == InitWriters /\ [][NextWriters]_vars

----------------------------------------------------------------------------
(* schedulerCache.mu: the handlers and Snapshot() step by step.  Two goroutines *)
(* call the handlers and two take Snapshots; indexRB and unindexRB return      *)
(* before c.mu.Lock() for a payload they do not index, Snapshot() lists the    *)
(* clusters before c.mu.RLock().  As sync.RWMutex does, RLock waits while a    *)
(* writer holds or waits for mu, and Unlock admits the readers that wait.      *)

Takers == {"s1", "s2"}

\* the payloads of the calls: the binding of the goroutine, placed or not
LockBindings(w) ==
    { rb \in WriterBindings :
        RBID(rb) = Owned(w) /\ rb.AffinityGroupLabel = GroupAlpha /\ rb.Clusters # <<"clusterY">> }

\* the critical sections a handler call goes through: unindexRB(oldRB) unless it
\* returns at lines 541-548, indexRB(newRB) unless it returns at lines 510-522
Sections(op, oldRB, newRB) ==
    (IF op # "add" /\ ProjectedKey(oldRB) # NoKey THEN <<"unindexRB">> ELSE <<>>)
        \o (IF op # "delete" /\ Eligible(newRB) THEN <<"indexRB">> ELSE <<>>)

InitLock ==
    /\ featureEnabled \in BOOLEAN
    /\ NewCache
    /\ clusterStore = [c \in ClusterNames |-> TRUE]
    /\ rbStore = <<>>
    /\ informed = <<>>
    /\ cycle = [s \in Takers |-> NoCycle]
    /\ trial = NoTrial
    /\ failover = NoFailover

\* a handler is called and runs up to its first c.mu.Lock(), or returns without one;
\* the informer calls OnResourceBindingAdd for a binding that the cache does not hold
HandlerCall(w, op, oldRB, newRB) ==
    /\ ~updating[w].active
    /\ op = "add" => /\ RBID(newRB) \notin DOMAIN clustersByRB
                     /\ \A k \in DOMAIN affinityGroups : RBID(newRB) \notin Elems(affinityGroups[k])
    /\ SumLen(affinityGroups, DOMAIN affinityGroups)
           + Cardinality({x \in Writers :
                 updating[x].active /\ "indexRB" \in Elems(updating[x].todo)}) < MaxEntries
    /\ updating' = [updating EXCEPT ![w] =
                       IF Sections(op, oldRB, newRB) = <<>> THEN Idle
                       ELSE [active |-> TRUE, oldRB |-> oldRB, newRB |-> newRB,
                             todo |-> Sections(op, oldRB, newRB), held |-> FALSE]]
    /\ UNCHANGED <<featureEnabled, affinityGroups, clustersByRB, lastSeen, illFormed, mu, world>>

\* c.mu.Lock() returns
Lock(w) ==
    /\ updating[w].active
    /\ ~updating[w].held
    /\ mu = Unlocked
    /\ mu' = [mu EXCEPT !.writer = w]
    /\ updating' = [updating EXCEPT ![w].held = TRUE]
    /\ UNCHANGED <<featureEnabled, affinityGroups, clustersByRB, lastSeen, illFormed, world>>

\* the critical section and the deferred c.mu.Unlock(); the handler goes on to its next
\* c.mu.Lock() or returns
Unlock(w) ==
    LET admitted == {s \in Takers : cycle[s].pc = "rlock"}
    IN  /\ updating[w].active
        /\ updating[w].held
        /\ SetCache(IF Head(updating[w].todo) = "unindexRB"
                    THEN unindexRB(Now, updating[w].oldRB)
                    ELSE indexRB(Now, updating[w].newRB))
        /\ mu' = [writer |-> "", readers |-> admitted]
        /\ cycle' = [s \in Takers |-> IF s \in admitted THEN [pc |-> "copy"] ELSE cycle[s]]
        /\ updating' = [updating EXCEPT ![w] =
                           IF Tail(updating[w].todo) = <<>> THEN Idle
                           ELSE [@ EXCEPT !.todo = Tail(@), !.held = FALSE]]
        /\ UNCHANGED <<featureEnabled, lastSeen, illFormed, clusterStore, rbStore, informed,
                       trial, failover>>

\* Snapshot() is called
SnapshotCall(s) ==
    /\ cycle[s].pc = "idle"
    /\ cycle' = [cycle EXCEPT ![s] = [pc |-> "list"]]
    /\ UNCHANGED <<featureEnabled, index, clusterStore, rbStore, informed, trial, failover>>

\* c.clusterLister.List and the copy of the clusters: Snapshot() returns on an error
\* and with the gate off, and calls c.mu.RLock() otherwise
List(s, listFails) ==
    /\ cycle[s].pc = "list"
    /\ cycle' = [cycle EXCEPT ![s] =
                    IF listFails \/ ~featureEnabled THEN NoCycle ELSE [pc |-> "rlock"]]
    /\ UNCHANGED <<featureEnabled, index, clusterStore, rbStore, informed, trial, failover>>

\* c.mu.RLock() returns
RLock(s) ==
    /\ cycle[s].pc = "rlock"
    /\ mu.writer = ""
    /\ \A w \in Writers : ~updating[w].active
    /\ mu' = [mu EXCEPT !.readers = @ \cup {s}]
    /\ cycle' = [cycle EXCEPT ![s] = [pc |-> "copy"]]
    /\ UNCHANGED <<featureEnabled, affinityGroups, clustersByRB, updating, lastSeen, illFormed,
                   clusterStore, rbStore, informed, trial, failover>>

\* Snapshot() that returns without its deferred c.mu.RUnlock()
RUnlockLeak(s) ==
    /\ cycle[s].pc = "copy"
    /\ cycle' = [cycle EXCEPT ![s] = NoCycle]
    /\ UNCHANGED <<featureEnabled, index, clusterStore, rbStore, informed, trial, failover>>

\* the copy of the two maps, the deferred c.mu.RUnlock() and the return
RUnlock(s) ==
    /\ cycle[s].pc = "copy"
    /\ mu' = [mu EXCEPT !.readers = @ \ {s}]
    /\ cycle' = [cycle EXCEPT ![s] = NoCycle]
    /\ UNCHANGED <<featureEnabled, affinityGroups, clustersByRB, updating, lastSeen, illFormed,
                   clusterStore, rbStore, informed, trial, failover>>

NextLock ==
    \/ \E w \in Writers, op \in {"add", "update", "delete"} :
           \E oldRB, newRB \in LockBindings(w) :
               (op = "update" \/ oldRB = newRB) /\ HandlerCall(w, op, oldRB, newRB)
    \/ \E w \in Writers : Lock(w)
    \/ \E w \in Writers : Unlock(w)
    \/ \E s \in Takers : SnapshotCall(s)
    \/ \E s \in Takers, listFails \in BOOLEAN : List(s, listFails)
    \/ \E s \in Takers : RLock(s)
    \/ \E s \in Takers : RUnlock(s)

\* every goroutine that can take a step is scheduled; sync.Mutex hands the lock to a
\* writer that has waited, so that a writer for which mu is free again and again gets it
FairLock ==
    /\ \A w \in Writers : SF_vars(Lock(w)) /\ WF_vars(Unlock(w))
    /\ \A s \in Takers :
           /\ WF_vars(\E listFails \in BOOLEAN : List(s, listFails))
           /\ WF_vars(RLock(s))
           /\ WF_vars(RUnlock(s))

SpecLock == InitLock /\ [][NextLock]_vars /\ FairLock

----------------------------------------------------------------------------
(* pkg/controllers/utils/common.go: UpdateFailoverStatus.  The binding is its   *)
(* Spec.Placement and its Status as the API server holds it; helper.UpdateStatus *)
(* reads the binding from the API server, applies the closure and writes the  *)
(* status, and fails with a conflict when another client has written first.   *)
(* The timestamps of the history items and of the conditions are left out.    *)

\* restrictFailoverHistoryInfo that does not look at MinGroups
restrictFailoverHistoryInfoMaxOnly(binding) ==
    LET placement == binding.Placement
        sc == placement.SpreadConstraints
    IN  IF placement.ReplicaSchedulingType = "Duplicated" THEN TRUE
        ELSE IF placement.ReplicaSchedulingType = "Divided"
             THEN \/ Len(sc) = 0
                  \/ \E i \in DOMAIN sc :
                         \/ sc[i].SpreadByLabel # ""
                         \/ sc[i].SpreadByField = "cluster" /\ sc[i].MaxGroups > 1
        ELSE FALSE

restrictFailoverHistoryInfo(binding) ==
    LET placement == binding.Placement
        sc == placement.SpreadConstraints
    IN  IF placement.ReplicaSchedulingType = "Duplicated" THEN TRUE
        ELSE IF placement.ReplicaSchedulingType = "Divided"
             THEN \/ Len(sc) = 0
                  \/ \E i \in DOMAIN sc :
                         \/ sc[i].SpreadByLabel # ""
                         \/ /\ sc[i].SpreadByField = "cluster"
                            /\ (sc[i].MaxGroups > 1 \/ sc[i].MinGroups > 1)
        ELSE FALSE

\* a reason for every failover type
FailoverReasonAny(failoverType) ==
    IF failoverType = "ApplicationFailure" THEN "ApplicationFailover" ELSE "ClusterFailover"

\* the reason of lines 65-74; "" stands for the branch that returns the error
FailoverReason(failoverType) ==
    IF failoverType = "ApplicationFailure" THEN "ApplicationFailover"
    ELSE IF failoverType = "TaintUntolerated" THEN "ClusterFailover"
    ELSE ""

\* the closure handed to helper.UpdateStatus
MutateStatus(status, cluster, failoverType) ==
    LET failoverHistoryItem == [OriginCluster |-> cluster, Reason |-> FailoverReason(failoverType)]
        newFailoverAppliedCondition ==
            [Type |-> failoverType, Status |-> "True", Reason |-> FailoverReason(failoverType),
             Message |-> "Failover triggered for replica on cluster " \o cluster]
    IN  [FailoverHistory |-> Append(status.FailoverHistory, failoverHistoryItem),
         Conditions |->
             IF /\ failoverType \in DOMAIN status.Conditions
                /\ status.Conditions[failoverType].Message = newFailoverAppliedCondition.Message
             THEN status.Conditions
             ELSE MapPut(status.Conditions, failoverType, newFailoverAppliedCondition)]

\* the bindings UpdateFailoverStatus is called with, by their Spec.Placement
FailoverBindings ==
    LET Constraint(label, field, max, min) ==
            [SpreadByLabel |-> label, SpreadByField |-> field, MaxGroups |-> max, MinGroups |-> min]
    IN  { [Placement |-> [ReplicaSchedulingType |-> t, SpreadConstraints |-> sc]] :
            t \in {"Duplicated", "Divided", ""},
            sc \in { <<>>,
                     <<Constraint("zone", "", 0, 0)>>,
                     <<Constraint("", "cluster", 1, 1)>>,
                     <<Constraint("", "cluster", 2, 1)>>,
                     <<Constraint("", "cluster", 1, 2)>>,
                     <<Constraint("", "region", 2, 2)>>,
                     <<Constraint("", "cluster", 1, 1), Constraint("zone", "", 0, 0)>> } }

InitFailover ==
    /\ featureEnabled = TRUE
    /\ NewCache
    /\ clusterStore = [c \in ClusterNames |-> TRUE]
    /\ rbStore = <<>>
    /\ informed = <<>>
    /\ cycle = <<>>
    /\ trial = NoTrial
    /\ failover = [pc |-> "idle", status |-> [FailoverHistory |-> <<>>, Conditions |-> <<>>]]

\* UpdateFailoverStatus up to retry.RetryOnConflict: it returns nil for a restricted
\* binding and the error for a failover type without a reason
UpdateFailoverStatus(binding, cluster, failoverType) ==
    /\ failover.pc \in {"idle", "returned"}
    /\ Len(failover.status.FailoverHistory) < MaxHistory
    /\ failover' =
           [pc |-> IF restrictFailoverHistoryInfo(binding) \/ FailoverReason(failoverType) = ""
                   THEN "returned" ELSE "retry",
            binding |-> binding, cluster |-> cluster, failoverType |-> failoverType,
            err |-> IF restrictFailoverHistoryInfo(binding) THEN "nil"
                    ELSE IF FailoverReason(failoverType) = ""
                         THEN "Invalid failover type passed into updateFailoverStatus"
                    ELSE "nil",
            steps |-> 0,
            before |-> failover.status,
            read |-> failover.status,
            status |-> failover.status]
    /\ UNCHANGED <<featureEnabled, index, clusterStore, rbStore, informed, cycle, trial>>

\* one attempt of retry.RetryOnConflict: helper.UpdateStatus writes the status, or
\* fails with a conflict because another client has written a history item first, or
\* fails with another error; the call returns nil, the error, or tries again
UpdateStatus(outcome) ==
    LET read == IF outcome = "conflict"
                THEN [failover.status EXCEPT
                        !.FailoverHistory = Append(@, [OriginCluster |-> "clusterY",
                                                       Reason |-> "ClusterFailover"])]
                ELSE failover.status
        steps == failover.steps + 1
    IN  /\ failover.pc = "retry"
        /\ outcome = "conflict" => Len(failover.status.FailoverHistory) + 1 < MaxHistory
        /\ failover' =
               [failover EXCEPT
                   !.pc = IF outcome = "conflict" /\ steps < MaxSteps THEN "retry" ELSE "returned",
                   !.err = IF outcome = "updated" THEN "nil" ELSE outcome,
                   !.steps = steps,
                   !.read = read,
                   !.status = IF outcome = "updated"
                              THEN MutateStatus(read, failover.cluster, failover.failoverType)
                              ELSE read]
        /\ UNCHANGED <<featureEnabled, index, clusterStore, rbStore, informed, cycle, trial>>

NextFailover ==
    \/ \E binding \in FailoverBindings, cluster \in ClusterNames,
          failoverType \in {"ApplicationFailure", "TaintUntolerated", "PreemptionFailure"} :
           UpdateFailoverStatus(binding, cluster, failoverType)
    \/ \E outcome \in {"updated", "conflict", "error"} : UpdateStatus(outcome)

SpecFailover == InitFailover /\ [][NextFailover]_vars

----------------------------------------------------------------------------
(* Properties of the index *)

\* the rbIDs held by some affinityGroups list
Listed == UNION {Elems(affinityGroups[k]) : k \in DOMAIN affinityGroups}
\* every event so far followed the informer's discipline
Ordered == illFormed = 0

\* C5: no binding id appears more than once in any affinityGroups list, also after a
\* repeated OnAdd of a binding that is already indexed.
C5_NoDuplicateIDs ==
    \A k \in DOMAIN affinityGroups :
        \A i, j \in DOMAIN affinityGroups[k] :
            i # j => affinityGroups[k][i] # affinityGroups[k][j]

\* C7 as claimed: after any sequence of events every id listed under a key has a
\* non-empty cluster set and the binding, as the index last saw it, projects to that key.
C7_ListedUnderOwnKey ==
    \A k \in DOMAIN affinityGroups :
        \A id \in Elems(affinityGroups[k]) :
            /\ id \in DOMAIN clustersByRB
            /\ clustersByRB[id] # {}
            /\ LastSeen(id).seen
            /\ LastSeen(id).key = k

\* C7 amended: the same, after any sequence of events that follows the informer's
\* discipline (one Add per object; the old object of an Update and the object of a
\* Delete are the state delivered last).
C7_OrderedListedUnderOwnKey == Ordered => C7_ListedUnderOwnKey

C7_Witness ==
    /\ Ordered
    /\ LastSeen("ns1/job-a").by = "update"
    /\ \E k \in DOMAIN affinityGroups :
           k.LabelKey = "tier" /\ affinityGroups[k] = <<"ns1/job-a">>
    /\ "ns1/job-b" \in Listed

\* C8 as claimed: in every reachable state an id is a key of clustersByRB iff it is
\* listed, and its set is the target clusters of the last event seen for it.
C8_ClustersMatchLists ==
    /\ DOMAIN clustersByRB = Listed
    /\ \A id \in DOMAIN clustersByRB :
           LastSeen(id).seen /\ clustersByRB[id] = LastSeen(id).clusters

\* C8 amended: the same, in every state reached by events that follow the informer's
\* discipline.
C8_OrderedClustersMatchLists == Ordered => C8_ClustersMatchLists

C8_Witness ==
    /\ Ordered
    /\ LastSeen("ns1/job-b").by = "delete"
    /\ "ns1/job-a" \in DOMAIN clustersByRB
    /\ clustersByRB["ns1/job-a"] = {"clusterX", "clusterY"}
    /\ "ns1/job-b" \notin Listed

\* C10: after OnDelete(b) has completed, b's id is in no list and is no key of
\* clustersByRB, whatever the payload carries.
C10_DeleteRemoves ==
    \A id \in RBIDs :
        LastSeen(id).by = "delete" => (id \notin Listed /\ id \notin DOMAIN clustersByRB)

----------------------------------------------------------------------------
(* Properties of Filter and of the scheduling cycle *)

\* a cycle holds a Snapshot and the results of Filter against it
Held(s) == cycle[s].pc = "bind"

\* the ids a Snapshot lists under some key
SnapListed(snap) ==
    UNION {Elems(ReadSlice(snap.affinityGroups.m[k])) : k \in DOMAIN snap.affinityGroups.m}

\* GetPeerResourceBindings for the triple of a binding, as a set
PeersOf(snap, b) ==
    Elems(GetPeerResourceBindings(snap, b.Namespace, b.WorkloadAffinity.AffinityLabelKey,
              LabelValue(b.AffinityGroupLabel, b.WorkloadAffinity.AffinityLabelKey)))

\* some peer other than the binding itself occupies the cluster, by the Snapshot
OccupiedByPeer(snap, b, c) ==
    \E id \in PeersOf(snap, b) \ {RBID(b)} : c \in GetClustersForResourceBinding(snap, id)

\* C1: with the feature enabled, a directive, a non-empty group label value and a
\* non-nil Snapshot, Filter returns Unschedulable exactly when a peer other than the
\* binding's own id occupies the cluster, and Success otherwise.
C1_FilterContract ==
    \A s \in Schedulers :
        (/\ Held(s)
         /\ featureEnabled
         /\ ~cycle[s].rb.WorkloadAffinity.isNil
         /\ ProjectedKey(cycle[s].rb) # NoKey
         /\ ~cycle[s].snap.isNil)
        => \A c \in DOMAIN cycle[s].results :
               cycle[s].results[c].code =
                   IF OccupiedByPeer(cycle[s].snap, cycle[s].rb, c)
                   THEN "Unschedulable" ELSE "Success"

\* C2: when every binding is placed only on clusters Filter accepted against the
\* Snapshot of its cycle and every placement is delivered to the index, no index state
\* has two distinct bindings of one affinity group on the same cluster.
C2_NoTwoPeersShareCluster ==
    \A k \in DOMAIN affinityGroups :
        \A id1, id2 \in Elems(affinityGroups[k]) \cap DOMAIN clustersByRB :
            id1 # id2 => clustersByRB[id1] \cap clustersByRB[id2] = {}

\* C3: a binding that OnAdd indexed while placed on a cluster, with no other peer there,
\* is accepted on that cluster when Filter runs for the binding itself against a
\* Snapshot taken afterwards, whatever the binding and its resource are named.
C3_SelfReschedule ==
    \A s \in Schedulers :
        Held(s) =>
            \A c \in DOMAIN cycle[s].results :
                (/\ cycle[s].indexedBy = "add"
                 /\ RBID(cycle[s].rb) \in PeersOf(cycle[s].snap, cycle[s].rb)
                 /\ c \in GetClustersForResourceBinding(cycle[s].snap, RBID(cycle[s].rb))
                 /\ ~OccupiedByPeer(cycle[s].snap, cycle[s].rb, c))
                => cycle[s].results[c].code = "Success"

\* the pending bindings Filter may be given
Pending ==
    { b \in Bindings :
        /\ b.Name = b.ResName
        /\ b.Clusters = <<>>
        /\ b.AffinityGroupLabel \in {GroupAlpha, GroupBeta, BothAlpha, NoLabels} }

\* C4: Filter rejects a cluster for a pending binding only because of an indexed binding
\* that shares its whole triple (namespace, label key, label value): when every indexed
\* binding on the cluster differs from the pending one in namespace, key or value,
\* Filter against a Snapshot of the index does not reject the cluster.
C4_PeersShareTriple ==
    LET snap == Snapshot(featureEnabled, FALSE, clusterStore, Now)
    IN  \A c \in ClusterNames :
            LET held == {LastSeen(id).key : id \in {i \in DOMAIN clustersByRB :
                                                      c \in clustersByRB[i]}}
            IN  \A b \in Pending :
                    ProjectedKey(b) \notin held
                    => Filter(featureEnabled, b, GetCluster(snap, c), snap).code
                           # "Unschedulable"

C4_Witness ==
    /\ \E s \in Schedulers :
          /\ Held(s)
          /\ "clusterX" \in DOMAIN cycle[s].results
          /\ cycle[s].results["clusterX"].code = "Unschedulable"
          /\ cycle[s].snap = Snapshot(featureEnabled, FALSE, clusterStore, Now)
    /\ clustersByRB = [id \in {"ns1/job-b"} |-> {"clusterX"}]
    /\ \A b \in Pending :
          (/\ ProjectedKey(b) # NoKey
           /\ ProjectedKey(b) # MakeAntiKey("ns1", "karmada.io/group", "alpha"))
          => Filter(featureEnabled, b, [Name |-> "clusterX", Ready |-> TRUE],
                    Snapshot(featureEnabled, FALSE, clusterStore, Now)).code = "Success"

\* C6: no Snapshot taken while OnResourceBindingUpdate runs, with the old and the new
\* object both eligible, misses the binding.
C6_UpdateAtomic ==
    \A s \in Schedulers :
        (Held(s) /\ ~cycle[s].snap.affinityGroups.isNil)
        => \A id \in cycle[s].during :
               /\ id \in SnapListed(cycle[s].snap)
               /\ id \in DOMAIN cycle[s].snap.clustersByRB.m

\* everything the accessors of a held Snapshot return
AntiKeys ==
    {MakeAntiKey(ns, k, v) : ns \in Namespaces, k \in LabelKeys, v \in GroupValues}
Observables(s) ==
    [peers |-> [k \in AntiKeys |->
                   GetPeerResourceBindings(cycle[s].snap, k.Namespace, k.LabelKey, k.GroupValue)],
     clustersOf |-> [id \in RBIDs |-> GetClustersForResourceBinding(cycle[s].snap, id)],
     num |-> NumOfClusters(cycle[s].snap),
     clusters |-> GetClusters(cycle[s].snap),
     ready |-> GetReadyClusters(cycle[s].snap),
     readyNames |-> GetReadyClusterNames(cycle[s].snap),
     cluster |-> [c \in ClusterNames |-> GetCluster(cycle[s].snap, c)]]

\* C9: what the accessors of a Snapshot return stays the same across every later step:
\* handler calls on the cache and changes of the cluster objects.
C9_SnapshotImmutable ==
    [][\A s \in Schedulers :
          (Held(s) /\ Held(s)') => Observables(s)' = Observables(s)]_vars

\* a Snapshot is held while the cache and the cluster objects have moved on
C9_Witness ==
    \E s \in Schedulers :
        /\ Held(s)
        /\ ~cycle[s].snap.affinityGroups.isNil
        /\ Observables(s).peers[MakeAntiKey("ns1", "karmada.io/group", "alpha")]
               = <<"ns1/job-a", "ns1/job-b">>
        /\ affinityGroups = <<>>
        /\ Observables(s).clustersOf["ns1/job-a"] # {}
        /\ clustersByRB = <<>>
        /\ Observables(s).readyNames # {c \in ClusterNames : clusterStore[c]}

----------------------------------------------------------------------------
(* Properties of OnResourceBindingUpdate *)

\* the keys whose list holds the id
KeysOf(id) == {k \in DOMAIN affinityGroups : id \in Elems(affinityGroups[k])}

\* the handler that handled the id last is a completed OnResourceBindingUpdate whose
\* new object is eligible for the index
UpdatedEligible(id) ==
    /\ ~Busy(id)
    /\ LastSeen(id).by = "update"
    /\ LastSeen(id).key # NoKey
    /\ LastSeen(id).clusters # {}

\* C11: after OnUpdate(old, new) with old the state the index last saw and new eligible,
\* the id is listed only under new's key and clustersByRB[id] is new's target clusters;
\* so Filter, for a peer of the same group, rejects every cluster the updated binding
\* is on now and accepts every cluster no binding of the group is on.
C11_UpdateMigrates ==
    LET snap == Snapshot(featureEnabled, FALSE, clusterStore, Now)
    IN  \A id \in RBIDs :
            UpdatedEligible(id) =>
                /\ KeysOf(id) = {LastSeen(id).key}
                /\ id \in DOMAIN clustersByRB
                /\ clustersByRB[id] = LastSeen(id).clusters
                /\ \A p \in DOMAIN informed \ {id} :
                       ProjectedKey(informed[p]) = LastSeen(id).key =>
                           \A c \in ClusterNames :
                               Filter(featureEnabled, informed[p], GetCluster(snap, c), snap).code
                                   = IF \E q \in Listed \ {p} : c \in clustersByRB[q]
                                     THEN "Unschedulable" ELSE "Success"

\* the handler that handled the id last is a completed OnResourceBindingUpdate whose
\* new object fails a condition of eligibility
UpdatedIneligible(id) ==
    /\ ~Busy(id)
    /\ LastSeen(id).by = "update"
    /\ (LastSeen(id).key = NoKey \/ LastSeen(id).clusters = {})

\* C12: after an OnUpdate whose new state has no target clusters, no directive, an empty
\* affinityLabelKey or an empty group label value, the binding is in no affinityGroups
\* list and is no key of clustersByRB.
C12_IneligibleUpdateRemoves ==
    \A id \in RBIDs :
        UpdatedIneligible(id) => (id \notin Listed /\ id \notin DOMAIN clustersByRB)

----------------------------------------------------------------------------
(* Properties of the feature gate *)

\* Filter has run for a pending binding on every cluster
Filtered(s) == cycle[s].pc = "filtered"

\* C13: with the WorkloadAffinity gate off, Filter returns Success for every pending
\* binding, every cluster and every Snapshot: nil, empty, or one where a peer occupies
\* the cluster.
C13_GateOffFilterSuccess ==
    \A s \in Schedulers :
        (Filtered(s) /\ ~cycle[s].gate)
        => \A c \in ClusterNames : cycle[s].results[c].code = "Success"

\* Filter has run with the gate off against a Snapshot, taken with the gate on, in which
\* a peer of the pending binding occupies clusterX
C13_Witness ==
    \E s \in Schedulers :
        /\ Filtered(s)
        /\ ~cycle[s].gate
        /\ ~cycle[s].given.isNil
        /\ ProjectedKey(cycle[s].rb) = MakeAntiKey("ns1", "karmada.io/group", "alpha")
        /\ OccupiedByPeer(cycle[s].given, cycle[s].rb, "clusterX")
        /\ cycle[s].results["clusterX"].code = "Success"

\* C14: while the WorkloadAffinity gate is off, OnAdd, OnUpdate and OnDelete leave
\* affinityGroups and clustersByRB as they are.
C14_GateOffHandlersNoOp ==
    [][~featureEnabled => UNCHANGED <<affinityGroups, clustersByRB>>]_vars

\* a Snapshot has been taken and Filter has not run yet
Taken(s) == cycle[s].pc = "snap"

\* GetPeerResourceBindings and GetClustersForResourceBinding return empty for every
\* argument
IndexOmitted(snap) ==
    /\ \A k \in AntiKeys :
           GetPeerResourceBindings(snap, k.Namespace, k.LabelKey, k.GroupValue) = <<>>
    /\ \A id \in RBIDs : GetClustersForResourceBinding(snap, id) = {}

\* C15 as claimed: a Snapshot taken while the gate is off answers empty to GetPeers
\* and ClustersOf whatever the index holds, and holds the cluster roster.
C15_GateOffSnapshot ==
    \A s \in Schedulers :
        (Taken(s) /\ ~cycle[s].enabled)
        => /\ IndexOmitted(cycle[s].snap)
           /\ GetClusters(cycle[s].snap) = cycle[s].roster

\* C15 amended: the same, with the roster held when clusterLister.List succeeds; when
\* List returns an error the Snapshot holds no cluster.
C15_GateOffSnapshotListed ==
    \A s \in Schedulers :
        (Taken(s) /\ ~cycle[s].enabled)
        => /\ IndexOmitted(cycle[s].snap)
           /\ GetClusters(cycle[s].snap) =
                  IF cycle[s].listFails THEN <<>> ELSE cycle[s].roster

\* a Snapshot taken with the gate off while the index holds a binding and clusterY is
\* not ready
C15_Witness ==
    \E s \in Schedulers :
        /\ Taken(s)
        /\ ~cycle[s].enabled
        /\ ~cycle[s].listFails
        /\ clustersByRB = [id \in {"ns1/job-a"} |-> {"clusterX"}]
        /\ "ns1/job-a" \in Listed
        /\ GetReadyClusterNames(cycle[s].snap) = {"clusterX"}
        /\ clusterStore = [c \in ClusterNames |-> c = "clusterX"]

\* Filter's results are Error exactly for a nil Snapshot given with the gate on and a
\* directive, and then carry the reason
ErrorContract(s, reason) ==
    LET mustFail == /\ cycle[s].gate
                    /\ ~cycle[s].rb.WorkloadAffinity.isNil
                    /\ cycle[s].given.isNil
    IN  \A c \in ClusterNames :
            /\ cycle[s].results[c].code \in {"Success", "Unschedulable", "Error"}
            /\ cycle[s].results[c].code = "Error" <=> mustFail
            /\ mustFail => cycle[s].results[c].reason = reason

----------------------------------------------------------------------------
(* Properties of handler sequences *)

\* the id is in no list and is no key of clustersByRB
Unindexed(c, id) ==
    /\ id \notin DOMAIN c.clustersByRB
    /\ \A k \in DOMAIN c.affinityGroups : id \notin Elems(c.affinityGroups[k])

\* C17 as claimed: from every reachable state, OnAdd(b) followed by OnDelete(b) returns
\* affinityGroups and clustersByRB to what they were before the OnAdd.
C17_AddDeleteRestores == trial.op = "add-delete" => Now = trial.before

\* C17 amended: the same, from every reachable state that does not hold b's id.
C17_AddDeleteRestoresUnindexed ==
    (trial.op = "add-delete" /\ Unindexed(trial.before, RBID(trial.rb)))
    => Now = trial.before

\* ns1/job-a was added to the list that held ns1/job-b, and deleted
C17_Witness ==
    /\ trial.op = "add-delete"
    /\ RBID(trial.rb) = "ns1/job-a"
    /\ Eligible(trial.rb)
    /\ Unindexed(trial.before, "ns1/job-a")
    /\ ProjectedKey(trial.rb) \in DOMAIN trial.before.affinityGroups
    /\ trial.before.affinityGroups[ProjectedKey(trial.rb)] = <<"ns1/job-b">>
    /\ LastSeen("ns1/job-a").by = "delete"

\* the members of every list, without their order
Members(c) == [k \in DOMAIN c.affinityGroups |-> Elems(c.affinityGroups[k])]

\* the maps hold the binding as the object describes it: listed under its key with its
\* target clusters when it is eligible, in neither map when it is not
HeldAs(c, rb) ==
    IF Eligible(rb)
    THEN /\ ProjectedKey(rb) \in DOMAIN c.affinityGroups
         /\ RBID(rb) \in Elems(c.affinityGroups[ProjectedKey(rb)])
         /\ RBID(rb) \in DOMAIN c.clustersByRB
         /\ c.clustersByRB[RBID(rb)] = TargetSet(rb)
    ELSE Unindexed(c, RBID(rb))

\* C18 as claimed: from every reachable state and for every binding x, OnUpdate(x, x)
\* leaves the members of every affinityGroups list and clustersByRB as they were.
C18_UpdateSameNoOp ==
    trial.op = "update"
    => (Members(Now) = Members(trial.before) /\ clustersByRB = trial.before.clustersByRB)

\* C18 amended: the same, for every binding x that the maps hold as x describes it.
C18_UpdateSameNoOpHeld ==
    (trial.op = "update" /\ HeldAs(trial.before, trial.rb))
    => (Members(Now) = Members(trial.before) /\ clustersByRB = trial.before.clustersByRB)

\* ns1/job-a, first of its list, was updated to itself: it is last of the list now
C18_Witness ==
    /\ trial.op = "update"
    /\ RBID(trial.rb) = "ns1/job-a"
    /\ Eligible(trial.rb)
    /\ HeldAs(trial.before, trial.rb)
    /\ trial.before.affinityGroups[ProjectedKey(trial.rb)] = <<"ns1/job-a", "ns1/job-b">>
    /\ ProjectedKey(trial.rb) \in DOMAIN affinityGroups
    /\ affinityGroups[ProjectedKey(trial.rb)] = <<"ns1/job-b", "ns1/job-a">>
    /\ clustersByRB["ns1/job-a"] = TargetSet(trial.rb)

----------------------------------------------------------------------------
(* Properties of Snapshot() against the writers *)

\* the two maps a Snapshot holds, as a value of the cache
SnapCache(snap) ==
    Cache([k \in DOMAIN snap.affinityGroups.m |-> ReadSlice(snap.affinityGroups.m[k])],
          snap.clustersByRB.m)

\* the values of the cache that a Snapshot may hold when every write takes effect at
\* one moment: with no write in progress the maps as they are; during an
\* OnResourceBindingUpdate the maps as the update found them or as it will leave them
Linearised ==
    IF \E w \in Writers : updating[w].active
    THEN UNION {{updating[w].before, indexRB(Now, updating[w].newRB)} :
                   w \in {x \in Writers : updating[x].active}}
    ELSE {Now}

\* C19: every Snapshot (taken with the feature enabled and the clusters listed) holds
\* affinityGroups and clustersByRB as they are at one linearisation point of the
\* writes: with the effect of every write that returned before Snapshot() was called,
\* both maps of the same moment, and no write half applied.
C19_SnapshotLinearised ==
    [][\A s \in Schedulers :
          (/\ cycle[s].pc = "idle" /\ cycle'[s].pc = "snap"
           /\ cycle'[s].enabled /\ ~cycle'[s].listFails)
          => SnapCache(cycle'[s].snap) \in Linearised]_vars

----------------------------------------------------------------------------
(* Properties of concurrent writers *)

\* no handler is running
Quiescent == \A w \in Writers : ~updating[w].active

\* C20: when the events of different bindings are delivered concurrently, every
\* interleaving ends with affinityGroups and clustersByRB meeting the invariants of the
\* index (no id twice in a list; every listed id under its own key with its clusters;
\* clustersByRB holds exactly the listed ids) and with the list members and cluster sets
\* that the same events give when applied one after the other.
C20_InterleavingsAgree ==
    Quiescent =>
        /\ C5_NoDuplicateIDs
        /\ C7_ListedUnderOwnKey
        /\ C8_ClustersMatchLists
        /\ Members(Now) = Members(trial.cache)
        /\ clustersByRB = trial.cache.clustersByRB

\* two updates overlapped: the list holds the two bindings in another order than the
\* events applied one after the other give
C20_Witness ==
    /\ Quiescent
    /\ LastSeen("ns1/job-a").by = "update"
    /\ LastSeen("ns1/job-b").by = "update"
    /\ \E k \in DOMAIN affinityGroups :
          /\ affinityGroups[k] = <<"ns1/job-b", "ns1/job-a">>
          /\ k \in DOMAIN trial.cache.affinityGroups
          /\ trial.cache.affinityGroups[k] = <<"ns1/job-a", "ns1/job-b">>
    /\ clustersByRB = [id \in {"ns1/job-a", "ns1/job-b"} |-> {"clusterY"}]

\* C21: a handler given a tombstone that wraps a binding leaves the two maps as
\* the same handler given the wrapped binding leaves them; a handler given a
\* payload it does not recognize, in any argument, leaves the two maps as they were.
C21_TombstoneAsWrapped ==
    /\ trial.op = "tombstone" =>
           LET rb == getRBFromObj(RBObj(trial.rb))
           IN  Now = IF trial.handler = "add"
                     THEN indexRB(trial.before, rb)
                     ELSE unindexRB(trial.before, rb)
    /\ trial.op = "dropped" => Now = trial.before

\* OnResourceBindingDelete given a tombstone has removed an indexed binding
C21_Witness ==
    /\ trial.op = "tombstone"
    /\ trial.handler = "delete"
    /\ RBID(trial.rb) \in DOMAIN trial.before.clustersByRB
    /\ RBID(trial.rb) \notin DOMAIN clustersByRB

\* the label keys the scheduler is configured to index on, as in the proposal's
\* example: --anti-affinity-label-keys="karmada.io/group"
AntiAffinityLabelKeys == {"karmada.io/group"}

\* C22: a directive whose affinityLabelKey is outside the scheduler's configured label
\* keys is treated as absent: no binding is indexed under such a key, and Filter
\* returns Success on every cluster for a pending binding naming such a key.
C22_UnlistedKeyAbsent ==
    /\ \A k \in DOMAIN affinityGroups : k.LabelKey \in AntiAffinityLabelKeys
    /\ \A b \in Pending, c \in ClusterNames :
           (~b.WorkloadAffinity.isNil
               /\ b.WorkloadAffinity.AffinityLabelKey \notin AntiAffinityLabelKeys)
           => Filter(TRUE, b, [Name |-> c, Ready |-> clusterStore[c]],
                     Snapshot(TRUE, FALSE, clusterStore, Now)).code = "Success"

\* C23: Filter rejects a cluster when placing the pending binding there would violate
\* the anti-affinity of a binding already indexed on that cluster (another binding of
\* the same namespace that occupies the cluster, whose label key the pending binding
\* carries with the same value), also when the pending binding has no directive or
\* names another label key.
C23_PlacedProtected ==
    \A b \in Pending, c \in ClusterNames :
        (\E k \in DOMAIN affinityGroups :
            /\ k.Namespace = b.Namespace
            /\ LabelValue(b.AffinityGroupLabel, k.LabelKey) = k.GroupValue
            /\ \E id \in Elems(affinityGroups[k]) \ {RBID(b)} :
                   id \in DOMAIN clustersByRB /\ c \in clustersByRB[id])
        => Filter(TRUE, b, [Name |-> c, Ready |-> clusterStore[c]],
                  Snapshot(TRUE, FALSE, clusterStore, Now)).code = "Unschedulable"

\* C24: for a Snapshot and a pending binding, the result of Filter for each cluster is
\* the one given under the value the WorkloadAffinity gate had when the Snapshot was
\* taken, whether or not the gate has changed since.
C24_GateAsCaptured ==
    \A s \in Schedulers :
        (Filtered(s) /\ ~cycle[s].given.isNil) =>
            \A c \in ClusterNames :
                cycle[s].results[c]
                    = Filter(cycle[s].enabled, cycle[s].rb,
                             [Name |-> c, Ready |-> clusterStore[c]], cycle[s].given)

\* C25: the result code of Filter does not depend on the order in which the Snapshot
\* lists the peers of a group: for every Snapshot of the index and every Snapshot that
\* lists the same ids under each key in another order, with the same cluster sets,
\* Filter returns the same code for every pending binding and every cluster.
C25_OrderIndependent ==
    LET snap == Snapshot(TRUE, FALSE, clusterStore, Now)
        groups == snap.affinityGroups.m
        Perms(seq) ==
            {[i \in DOMAIN seq |-> seq[q[i]]] :
                q \in {f \in [DOMAIN seq -> DOMAIN seq] :
                          \A i, j \in DOMAIN seq : f[i] = f[j] => i = j}}
        Slices(k) == {CopySlice(k, seq) : seq \in Perms(ReadSlice(groups[k]))}
        Shuffled ==
            {m \in [DOMAIN groups -> UNION {Slices(k) : k \in DOMAIN groups}] :
                \A k \in DOMAIN groups : m[k] \in Slices(k)}
        Codes(given) ==
            [b \in Pending, c \in ClusterNames |->
                Filter(TRUE, b, [Name |-> c, Ready |-> clusterStore[c]], given).code]
        codes == Codes(snap)
    IN  \A m \in Shuffled : Codes([snap EXCEPT !.affinityGroups = MakeMap(m)]) = codes

\* a group lists two bindings that occupy different clusters
C25_Witness ==
    \E k \in DOMAIN affinityGroups :
        \E i, j \in DOMAIN affinityGroups[k] :
            /\ i < j
            /\ affinityGroups[k][i] \in DOMAIN clustersByRB
            /\ affinityGroups[k][j] \in DOMAIN clustersByRB
            /\ clustersByRB[affinityGroups[k][i]] = {"clusterX"}
            /\ clustersByRB[affinityGroups[k][j]] = {"clusterY"}

\* C26: OnResourceBindingAdd of a binding that fails a condition of indexRB (no target
\* clusters, no workloadAffinity directive, an empty AffinityLabelKey, or no value for
\* that label) leaves affinityGroups and clustersByRB as they were.
C26_IneligibleAddNoOp ==
    (trial.op = "add" /\ ~Eligible(trial.rb)) => Now = trial.before

\* such an OnResourceBindingAdd has been handled by a cache that holds bindings
C26_Witness ==
    /\ trial.op = "add"
    /\ ~Eligible(trial.rb)
    /\ RBID(trial.rb) \in DOMAIN clustersByRB

\* C27: in every reachable state of the index no key of affinityGroups maps to an
\* empty list: a list that loses its last id is removed together with its key.
C27_NoEmptyList == \A k \in DOMAIN affinityGroups : Len(affinityGroups[k]) > 0

\* OnResourceBindingDelete has removed the only id of a list
C27_Witness ==
    /\ trial.op = "add-delete"
    /\ Eligible(trial.rb)
    /\ ProjectedKey(trial.rb) \notin DOMAIN trial.before.affinityGroups
    /\ ProjectedKey(trial.rb) \notin DOMAIN affinityGroups

\* C28: on every Snapshot, also an empty one and one taken with the gate off,
\* GetPeerResourceBindings returns a slice that is empty and not nil for a group the
\* Snapshot does not know, and GetClustersForResourceBinding returns an empty set for
\* an id it does not know.
C28_UnknownYieldsEmpty ==
    \A s \in Schedulers :
        Taken(s) =>
            /\ \A k \in AntiKeys :
                   (cycle[s].snap.affinityGroups.isNil
                       \/ k \notin DOMAIN cycle[s].snap.affinityGroups.m)
                   => /\ GetPeerResourceBindings(cycle[s].snap, k.Namespace, k.LabelKey,
                                                 k.GroupValue) = <<>>
                      /\ ~PeersNil(cycle[s].snap, k.Namespace, k.LabelKey, k.GroupValue)
            /\ \A id \in RBIDs :
                   (cycle[s].snap.clustersByRB.isNil
                       \/ id \notin DOMAIN cycle[s].snap.clustersByRB.m)
                   => GetClustersForResourceBinding(cycle[s].snap, id) = {}

\* C29: a peer that the Snapshot lists in the pending binding's group but for which it
\* holds no cluster, its set being missing or empty, contributes no conflict: Filter
\* returns what it returns for the Snapshot without such peers in its lists, and goes
\* on to the peers listed after them.  The pending binding is one of the indexed
\* workloads or a third one, job-c.
C29_UnplacedPeerNoConflict ==
    LET snap == Snapshot(TRUE, FALSE, clusterStore, Now)
        groups == snap.affinityGroups.m
        IsPlaced(id) == GetClustersForResourceBinding(snap, id) # {}
        pruned ==
            [snap EXCEPT !.affinityGroups =
                MakeMap([k \in DOMAIN groups |->
                            CopySlice(k, SelectSeq(ReadSlice(groups[k]), IsPlaced))])]
        emptied ==
            [snap EXCEPT !.clustersByRB =
                MakeMap([id \in RBIDs |-> GetClustersForResourceBinding(snap, id)])]
        Results(given) ==
            [b \in Pending \cup {[p EXCEPT !.Name = "job-c", !.ResName = "job-c"] : p \in Pending},
             c \in ClusterNames |->
                Filter(TRUE, b, [Name |-> c, Ready |-> clusterStore[c]], given)]
    IN  Results(snap) = Results(pruned) /\ Results(emptied) = Results(pruned)

\* a group lists a binding for which clustersByRB holds nothing, and after it a binding
\* that occupies clusterX
C29_Witness ==
    \E k \in DOMAIN affinityGroups :
        \E i, j \in DOMAIN affinityGroups[k] :
            /\ i < j
            /\ affinityGroups[k][i] \notin DOMAIN clustersByRB
            /\ affinityGroups[k][j] \in DOMAIN clustersByRB
            /\ "clusterX" \in clustersByRB[affinityGroups[k][j]]

----------------------------------------------------------------------------
(* Properties of schedulerCache.mu *)

\* C31: no operation of the index blocks forever.  Under fair scheduling of the
\* goroutines that call the handlers and of those that take Snapshots, every handler
\* call and every Snapshot() call that has started returns; a goroutine that has
\* returned holds mu no more, and mu is not held during the listing of the clusters.
C31_CallsComplete ==
    /\ \A w \in Writers : updating[w].active ~> ~updating[w].active
    /\ \A s \in Takers : (cycle[s].pc # "idle") ~> (cycle[s].pc = "idle")
    /\ [](\A w \in Writers : mu.writer = w => (updating[w].active /\ updating[w].held))
    /\ [](\A s \in Takers : s \in mu.readers => cycle[s].pc = "copy")

\* a handler waits for mu while one Snapshot() holds it and another waits for it
C31_Witness ==
    \E w \in Writers, s, t \in Takers :
        /\ updating[w].active
        /\ ~updating[w].held
        /\ s \in mu.readers
        /\ cycle[t].pc = "rlock"

----------------------------------------------------------------------------
(* Properties of UpdateFailoverStatus *)

\* C32: UpdateFailoverStatus called on a binding that is not restricted, with a
\* failover type that is neither the application-failure nor the taint-untolerated
\* eviction reason, returns an error and writes no status: the failover history and
\* the conditions of the binding are as they were.
C32_InvalidTypeRejected ==
    (/\ failover.pc = "returned"
     /\ ~restrictFailoverHistoryInfo(failover.binding)
     /\ failover.failoverType \notin {"ApplicationFailure", "TaintUntolerated"})
    => /\ failover.err = "Invalid failover type passed into updateFailoverStatus"
       /\ failover.steps = 0
       /\ failover.status = failover.before

\* such a call has returned for a binding that has a failover history
C32_Witness ==
    /\ failover.pc = "returned"
    /\ ~restrictFailoverHistoryInfo(failover.binding)
    /\ failover.failoverType = "PreemptionFailure"
    /\ failover.err # "nil"
    /\ Len(failover.status.FailoverHistory) > 0

====
